---- MODULE Spec2Model ----
(***************************************************************************)
(* Construction of MKL-DNN pooling kernels                                 *)
(* (ngraph/transformers/cpu/pooling.c).                                    *)
(*                                                                         *)
(* The state is a small pool of opkernel records, the records that the     *)
(* two builders receive through their mkldnn_opkernel_t arguments.  Each   *)
(* record carries its own op_desc, op_prim, tensors, counts, reorder slots *)
(* and its own net / net_size.  One action models one whole call of a      *)
(* builder.  The engine (MKL-DNN) is outside the repository: the status of *)
(* each of its calls and the concrete layout it picks for a descriptor     *)
(* initialised with mkldnn_any are inputs of the call.                     *)
(***************************************************************************)
EXTENDS Integers, Sequences, FiniteSets

VARIABLES opkernel, aborted, ncalls, call

vars == <<opkernel, aborted, ncalls, call>>

(***************************************************************************)
(* Bounds and input domains                                                *)
(***************************************************************************)
\* number of builder calls explored; also caps every net_size
MaxBuilds == 2

\* the opkernel records a caller can pass
Kernels == {"A", "B"}

\* argument slots of an opkernel that pooling touches
Slots == {0, 1}

\* pre- and post-pooling extents [N,C,H,W] of the pooling operator
Pre == <<8, 16, 32, 32>>
Post == <<8, 16, 16, 16>>
Window == <<2, 2>>
Stride == <<2, 2>>
Pad == <<0, 0>>

\* pool_type selector values a caller can pass (0 = max, 1 = average)
PoolTypes == {0, 1, 2}

\* concrete layouts the engine can resolve mkldnn_any to
Formats == {"chwn", "nchw"}

\* status outcomes of the engine calls of one build: 0 = every call
\* succeeds, n = the n-th checked call returns an error
\*   1 memory_desc_init (src)   2 memory_desc_init (dst)
\*   3 pooling_*_desc_init      4 primitive_desc_create
\*   5 primitive_create
FailSteps == 0 .. 5

(***************************************************************************)
(* Null values                                                             *)
(***************************************************************************)
NULL_MD == [ndims |-> 0, dims |-> <<>>, data_type |-> "none", format |-> "null"]

NULL_TENSOR == [ndims |-> 0, sizes |-> <<>>, md |-> NULL_MD, prim |-> 0]

NULL_DESC == [id |-> 0, kind |-> "none", alg |-> "none",
              src_pd |-> NULL_MD, dst_pd |-> NULL_MD,
              diff_src_pd |-> NULL_MD, diff_dst_pd |-> NULL_MD,
              workspace_pd |-> NULL_MD, hint |-> 0]

NULL_PRIM == [id |-> 0, kind |-> "none", hint |-> 0]

\* an opkernel record as allocated, before any builder ran on it
EmptyKernel ==
  [op_desc |-> NULL_DESC, op_prim |-> NULL_PRIM,
   num_inputs |-> 0, num_outputs |-> 0,
   inputs |-> [s \in Slots |-> NULL_TENSOR],
   outputs |-> [s \in Slots |-> NULL_TENSOR],
   reorder_i |-> [s \in Slots |-> "unset"],
   reorder_o |-> [s \in Slots |-> "unset"],
   net |-> [i \in 0 .. MaxBuilds - 1 |-> NULL_PRIM],
   net_size |-> 0]

(***************************************************************************)
(* Arguments of a call                                                     *)
(***************************************************************************)
\* an explicit source layout a caller can supply for extents `sizes`
ExplicitMd(sizes) ==
  [ndims |-> Len(sizes), dims |-> sizes, data_type |-> "f32", format |-> "nchw"]

ArgsFor(shapes) ==
  UNION { { [src_dims |-> Len(sh[1]), dst_dims |-> Len(sh[2]),
             src_sizes |-> sh[1], kernel_sizes |-> Window, dst_sizes |-> sh[2],
             strides |-> Stride, padding |-> Pad, pool_type |-> pt,
             input_src_md |-> md, data_type |-> "f32"] :
               pt \in PoolTypes, md \in {NULL_MD, ExplicitMd(sh[1])} } :
          sh \in shapes }

\* the forward builder is given the operator's extents; the backward builder
\* is given them either in the same order or with the roles exchanged
FpropArgs == ArgsFor({<<Pre, Post>>})
BpropArgs == ArgsFor({<<Pre, Post>>, <<Post, Pre>>})

\* the engine resolves a layout only once it reaches primitive_desc_create
EngineOutcomes ==
  [fail : FailSteps \ {0, 5}, fmt : {"null"}] \cup [fail : {0, 5}, fmt : Formats]

(***************************************************************************)
(* Engine and utility calls                                                *)
(***************************************************************************)
\* mkldnn_memory_desc_init(&md, ndims, dims, data_type, format)
mkldnn_memory_desc_init(ndims, dims, data_type, format) ==
  [ndims |-> ndims, dims |-> dims, data_type |-> data_type, format |-> format]

\* the engine resolves a descriptor left at mkldnn_any to a layout it picks
resolve(md, fmt) ==
  IF md.format = "any" THEN [md EXCEPT !.format = fmt] ELSE md

\* create_mkldnn_tensor_from_md(ndims, sizes, md, engine, &tensor)
create_mkldnn_tensor_from_md(ndims, sizes, md, id) ==
  [ndims |-> ndims, sizes |-> sizes, md |-> md, prim |-> id]

\* create_mkldnn_tensor(ndims, sizes, data_type, format, engine, &tensor)
create_mkldnn_tensor(ndims, sizes, data_type, format, id) ==
  [ndims |-> ndims, sizes |-> sizes,
   md |-> mkldnn_memory_desc_init(ndims, sizes, data_type, format),
   prim |-> id]

\* MKL_CHECK(f): a failing status terminates the process
MKL_CHECK(e) == e.fail # 0

(***************************************************************************)
(* create_mkldnn_pool_fprop_kernel                                         *)
(***************************************************************************)
\* source descriptor: the caller's, or the default chwn one
fprop_src_md(a) ==
  IF a.input_src_md # NULL_MD
    THEN a.input_src_md
    ELSE mkldnn_memory_desc_init(a.src_dims, a.src_sizes, a.data_type, "chwn")

\* destination descriptor, layout left to the engine
fprop_dst_md(a) ==
  mkldnn_memory_desc_init(a.dst_dims, a.dst_sizes, a.data_type, "any")

\* faulty variant (sensitivity of C10): only selector 1 is taken as average
fprop_alg_only1(a) ==
  IF a.pool_type = 1 THEN "pooling_avg" ELSE "pooling_max"

\* algorithm of the pooling descriptor
fprop_alg(a) ==
  IF a.pool_type = 0 THEN "pooling_max" ELSE "pooling_avg"

\* mkldnn_primitive_desc_create(&opkernel->op_desc, &pool_any_desc, engine, NULL)
fprop_op_desc(a, e, id) ==
  [id |-> id, kind |-> "forward_training", alg |-> fprop_alg(a),
   src_pd |-> resolve(fprop_src_md(a), e.fmt),
   dst_pd |-> resolve(fprop_dst_md(a), e.fmt),
   diff_src_pd |-> NULL_MD, diff_dst_pd |-> NULL_MD,
   workspace_pd |-> IF fprop_alg(a) = "pooling_max"
                      THEN resolve(fprop_dst_md(a), e.fmt) ELSE NULL_MD,
   hint |-> 0]

\* opkernel->inputs[0]
fprop_input0(a, id) ==
  IF a.input_src_md # NULL_MD
    THEN create_mkldnn_tensor_from_md(a.src_dims, a.src_sizes, a.input_src_md, id)
    ELSE create_mkldnn_tensor(a.src_dims, a.src_sizes, a.data_type, "chwn", id)

\* faulty variant (sensitivity of C8): the output built with the source extents
fprop_output0_src(a, pd, id) ==
  create_mkldnn_tensor_from_md(a.src_dims, a.src_sizes, pd.dst_pd, id)

\* opkernel->outputs[0], from the descriptor the engine resolved
fprop_output0(a, pd, id) ==
  create_mkldnn_tensor_from_md(a.dst_dims, a.dst_sizes, pd.dst_pd, id)

\* faulty variant (sensitivity of C1): the selector test inverted
fprop_num_outputs_inverted(a) ==
  IF a.pool_type = 0 THEN 1 ELSE 2

\* opkernel->num_outputs
fprop_num_outputs(a) ==
  IF a.pool_type = 0 THEN 2 ELSE 1

\* workspace of max pooling: outputs[1] and reorder_o[1]
fprop_workspace(kern, a, pd, id) ==
  IF a.pool_type = 0
    THEN [kern EXCEPT
            !.outputs[1] = create_mkldnn_tensor_from_md(a.dst_dims, a.dst_sizes,
                                                        pd.workspace_pd, id),
            !.reorder_o[1] = "NULL"]
    ELSE kern

\* faulty variant (sensitivity of C9): net[++net_size], the index raised first
fprop_net_preinc(kern) ==
  [kern EXCEPT !.net[kern.net_size + 1] = kern.op_prim,
               !.net_size = kern.net_size + 1]

\* opkernel->net[opkernel->net_size++] = opkernel->op_prim
fprop_net(kern) ==
  [kern EXCEPT !.net[kern.net_size] = kern.op_prim,
               !.net_size = kern.net_size + 1]

\* faulty variant (sensitivity of C5): the net entry written before
\* primitive_create is checked
pool_fprop_kernel_early_append(kern, a, e, id) ==
  IF e.fail \in 1 .. 4
    THEN kern
    ELSE LET pd == fprop_op_desc(a, e, id)
             filled == fprop_workspace(
                         [kern EXCEPT !.op_desc = pd,
                                      !.inputs[0] = fprop_input0(a, id),
                                      !.outputs[0] = fprop_output0(a, pd, id),
                                      !.num_inputs = 1,
                                      !.num_outputs = fprop_num_outputs(a),
                                      !.reorder_i[0] = "NULL",
                                      !.reorder_o[0] = "NULL"],
                         a, pd, id)
         IN  IF e.fail = 5
               THEN fprop_net(filled)
               ELSE fprop_net([filled EXCEPT
                                 !.op_prim = [id |-> id, kind |-> pd.kind,
                                              hint |-> pd.hint]])

\* the opkernel record when the call returns or the process is terminated
pool_fprop_kernel(kern, a, e, id) ==
  IF e.fail \in 1 .. 4
    THEN kern
    ELSE LET pd == fprop_op_desc(a, e, id)
             filled == fprop_workspace(
                         [kern EXCEPT !.op_desc = pd,
                                      !.inputs[0] = fprop_input0(a, id),
                                      !.outputs[0] = fprop_output0(a, pd, id),
                                      !.num_inputs = 1,
                                      !.num_outputs = fprop_num_outputs(a),
                                      !.reorder_i[0] = "NULL",
                                      !.reorder_o[0] = "NULL"],
                         a, pd, id)
         IN  IF e.fail = 5
               THEN filled
               ELSE fprop_net([filled EXCEPT
                                 !.op_prim = [id |-> id, kind |-> pd.kind,
                                              hint |-> pd.hint]])

(***************************************************************************)
(* create_mkldnn_pool_bprop_kernel                                         *)
(***************************************************************************)
\* faulty variant (sensitivity of C7): another default layout than the
\* forward builder's
bprop_src_md_nchw(a) ==
  IF a.input_src_md # NULL_MD
    THEN a.input_src_md
    ELSE mkldnn_memory_desc_init(a.src_dims, a.src_sizes, a.data_type, "nchw")

\* descriptor of the builder's source side, the incoming gradient
bprop_src_md(a) ==
  IF a.input_src_md # NULL_MD
    THEN a.input_src_md
    ELSE mkldnn_memory_desc_init(a.src_dims, a.src_sizes, a.data_type, "chwn")

\* descriptor of the builder's destination side, the outgoing gradient
bprop_dst_md(a) ==
  mkldnn_memory_desc_init(a.dst_dims, a.dst_sizes, a.data_type, "any")

\* algorithm of the pooling descriptor
bprop_alg(a) ==
  IF a.pool_type = 0 THEN "pooling_max" ELSE "pooling_avg"

\* mkldnn_pooling_backward_desc_init(&desc, alg, diff_src = dst_md,
\* diff_dst = src_md, ...) and mkldnn_primitive_desc_create(&opkernel->op_desc,
\* &desc, engine, fprop_opkernel->op_desc)
bprop_op_desc(a, e, id, fprop_op_desc_) ==
  [id |-> id, kind |-> "backward", alg |-> bprop_alg(a),
   src_pd |-> NULL_MD, dst_pd |-> NULL_MD,
   diff_src_pd |-> resolve(bprop_dst_md(a), e.fmt),
   diff_dst_pd |-> resolve(bprop_src_md(a), e.fmt),
   workspace_pd |-> IF bprop_alg(a) = "pooling_max"
                      THEN resolve([bprop_src_md(a) EXCEPT !.format = "any"], e.fmt)
                      ELSE NULL_MD,
   hint |-> fprop_op_desc_.id]

\* opkernel->inputs[0]
bprop_input0(a, id) ==
  IF a.input_src_md # NULL_MD
    THEN create_mkldnn_tensor_from_md(a.src_dims, a.src_sizes, a.input_src_md, id)
    ELSE create_mkldnn_tensor(a.src_dims, a.src_sizes, a.data_type, "chwn", id)

\* faulty variant (sensitivity of C4): the output built with the source extents
bprop_output0_src(a, pd, id) ==
  create_mkldnn_tensor_from_md(a.src_dims, a.src_sizes, pd.diff_src_pd, id)

\* opkernel->outputs[0], from the diff_src descriptor the engine resolved
bprop_output0(a, pd, id) ==
  create_mkldnn_tensor_from_md(a.dst_dims, a.dst_sizes, pd.diff_src_pd, id)

\* faulty variant (sensitivity of C2): the selector test inverted
bprop_num_inputs_inverted(a) ==
  IF a.pool_type = 0 THEN 1 ELSE 2

\* opkernel->num_inputs
bprop_num_inputs(a) ==
  IF a.pool_type = 0 THEN 2 ELSE 1

\* workspace of max pooling: inputs[1] and reorder_i[1]
bprop_workspace(kern, a, pd, id) ==
  IF a.pool_type = 0
    THEN [kern EXCEPT
            !.inputs[1] = create_mkldnn_tensor_from_md(a.src_dims, a.src_sizes,
                                                       pd.workspace_pd, id),
            !.reorder_i[1] = "NULL"]
    ELSE kern

\* faulty variant (sensitivity of C3): the net restarted at position 0
bprop_net_restart(kern) ==
  [kern EXCEPT !.net[0] = kern.op_prim, !.net_size = 1]

\* opkernel->net[opkernel->net_size++] = opkernel->op_prim
bprop_net(kern) ==
  [kern EXCEPT !.net[kern.net_size] = kern.op_prim,
               !.net_size = kern.net_size + 1]

\* the opkernel record when the call returns or the process is terminated
pool_bprop_kernel(kern, a, e, id, fprop_op_desc_) ==
  IF e.fail \in 1 .. 4
    THEN kern
    ELSE LET pd == bprop_op_desc(a, e, id, fprop_op_desc_)
             filled == bprop_workspace(
                         [kern EXCEPT !.op_desc = pd,
                                      !.inputs[0] = bprop_input0(a, id),
                                      !.outputs[0] = bprop_output0(a, pd, id),
                                      !.num_inputs = bprop_num_inputs(a),
                                      !.num_outputs = 1,
                                      !.reorder_i[0] = "NULL",
                                      !.reorder_o[0] = "NULL"],
                         a, pd, id)
         IN  IF e.fail = 5
               THEN filled
               ELSE bprop_net([filled EXCEPT
                                 !.op_prim = [id |-> id, kind |-> pd.kind,
                                              hint |-> pd.hint]])

(***************************************************************************)
(* State machine                                                           *)
(***************************************************************************)
NoCall == [fn |-> "none", k |-> "A", fk |-> "A", id |-> 0, ok |-> FALSE,
           a |-> CHOOSE x \in FpropArgs : TRUE]

Init ==
  /\ opkernel = [k \in Kernels |-> EmptyKernel]
  /\ aborted = FALSE
  /\ ncalls = 0
  /\ call = NoCall

\* one call create_mkldnn_pool_fprop_kernel(..., opkernel = k)
Fprop(k, a, e) ==
  /\ ~aborted
  /\ ncalls < MaxBuilds
  /\ opkernel[k].net_size < MaxBuilds
  /\ e.fail = 1 => a.input_src_md = NULL_MD
  /\ ncalls' = ncalls + 1
  /\ opkernel' = [opkernel EXCEPT ![k] = pool_fprop_kernel(@, a, e, ncalls + 1)]
  /\ aborted' = MKL_CHECK(e)
  /\ call' = [fn |-> "fprop", k |-> k, fk |-> k, id |-> ncalls + 1,
              ok |-> ~MKL_CHECK(e), a |-> a]

\* one call create_mkldnn_pool_bprop_kernel(..., fprop_opkernel = fk, opkernel = k)
Bprop(k, fk, a, e) ==
  /\ ~aborted
  /\ ncalls < MaxBuilds
  /\ opkernel[k].net_size < MaxBuilds
  /\ e.fail = 1 => a.input_src_md = NULL_MD
  /\ ncalls' = ncalls + 1
  /\ opkernel' = [opkernel EXCEPT
                    ![k] = pool_bprop_kernel(@, a, e, ncalls + 1,
                                             opkernel[fk].op_desc)]
  /\ aborted' = MKL_CHECK(e)
  /\ call' = [fn |-> "bprop", k |-> k, fk |-> fk, id |-> ncalls + 1,
              ok |-> ~MKL_CHECK(e), a |-> a]

Next ==
  \/ \E k \in Kernels, a \in FpropArgs, e \in EngineOutcomes : Fprop(k, a, e)
  \/ \E k \in Kernels, fk \in Kernels, a \in BpropArgs, e \in EngineOutcomes :
       Bprop(k, fk, a, e)

Spec == Init /\ [][Next]_vars

(***************************************************************************)
(* Properties                                                              *)
(***************************************************************************)
\* the opkernel record the latest call was given
K == opkernel[call.k]

\* the entries recorded in the net of opkernel k
NetEntries(k) == { opkernel[k].net[i] : i \in 0 .. opkernel[k].net_size - 1 }

FpropDone == call.fn = "fprop" /\ call.ok
BpropDone == call.fn = "bprop" /\ call.ok

\* C1: a successful forward build leaves 1 input, 2 outputs for max pooling
\* (pool_type 0) and 1 output for average pooling (pool_type 1); it writes the
\* second output slot exactly when the pooling is max, and on a record built
\* once that slot is populated exactly when the pooling is max.
C1_FpropCounts ==
  (FpropDone /\ call.a.pool_type \in {0, 1}) =>
    /\ K.num_inputs = 1
    /\ call.a.pool_type = 0 => K.num_outputs = 2
    /\ call.a.pool_type = 1 => K.num_outputs = 1
    /\ (K.outputs[1].prim = call.id) <=> (call.a.pool_type = 0)
    /\ K.net_size = 1 => ((K.outputs[1] # NULL_TENSOR) <=> (call.a.pool_type = 0))
    /\ call.a.pool_type = 0 =>
         /\ K.outputs[1].sizes = call.a.dst_sizes
         /\ K.outputs[1].md = K.op_desc.workspace_pd
         /\ K.reorder_o[1] = "NULL"

C1_Witness ==
  /\ FpropDone /\ call.a.pool_type = 0
  /\ K.num_inputs = 1 /\ K.num_outputs = 2 /\ K.outputs[1].prim = call.id
  /\ \E j \in Kernels \ {call.k} :
       /\ opkernel[j].op_desc.kind = "forward_training"
       /\ opkernel[j].op_desc.alg = "pooling_avg"
       /\ opkernel[j].num_outputs = 1 /\ opkernel[j].outputs[1] = NULL_TENSOR

\* C2: a successful backward build leaves 1 output, 2 inputs for max pooling
\* and 1 input for average pooling; it writes the second input slot exactly
\* when the pooling is max, and on a record built once that slot is populated
\* exactly when the pooling is max.
C2_BpropCounts ==
  (BpropDone /\ call.a.pool_type \in {0, 1}) =>
    /\ K.num_outputs = 1
    /\ call.a.pool_type = 0 => K.num_inputs = 2
    /\ call.a.pool_type = 1 => K.num_inputs = 1
    /\ (K.inputs[1].prim = call.id) <=> (call.a.pool_type = 0)
    /\ K.net_size = 1 => ((K.inputs[1] # NULL_TENSOR) <=> (call.a.pool_type = 0))
    /\ call.a.pool_type = 0 =>
         /\ K.inputs[1].sizes = call.a.src_sizes
         /\ K.inputs[1].md = K.op_desc.workspace_pd
         /\ K.reorder_i[1] = "NULL"

C2_Witness ==
  /\ BpropDone /\ call.a.pool_type = 0
  /\ K.num_outputs = 1 /\ K.num_inputs = 2 /\ K.inputs[1].prim = call.id
  /\ \E j \in Kernels \ {call.k} :
       /\ opkernel[j].op_desc.kind = "backward"
       /\ opkernel[j].op_desc.alg = "pooling_avg"
       /\ opkernel[j].num_inputs = 1 /\ opkernel[j].inputs[1] = NULL_TENSOR

\* the net entries, over all opkernel records, made by the latest two calls
NewEntries ==
  { <<k, i>> \in Kernels \X (0 .. MaxBuilds - 1) :
      /\ i < opkernel[k].net_size
      /\ opkernel[k].net[i].id \in {call.id - 1, call.id} }

\* the guard of C3: this step is a successful backward build against the
\* opkernel record that the call before it built successfully as a forward
\* kernel
C3_Case ==
  /\ call.fn = "fprop" /\ call.ok
  /\ call'.fn = "bprop" /\ call'.ok
  /\ call'.fk = call.k

\* C3 as stated: after a forward build followed by a backward build against
\* it, the net the backward build appended to holds two new entries, the
\* forward primitive directly before the backward primitive.
C3_Original ==
  [][ C3_Case =>
        LET B == opkernel'[call'.k]
        IN  /\ B.net_size >= 2
            /\ B.net[B.net_size - 1] = B.op_prim
            /\ B.net[B.net_size - 2] = opkernel[call.k].op_prim
    ]_vars

\* C3 amended: each build appends to the net of the opkernel record it was
\* given.  Together the two builds add exactly two entries; when both were
\* given the same record its net ends with the forward primitive followed by
\* the backward primitive; when they were given different records the forward
\* primitive ends the forward record's net, the backward primitive ends the
\* backward record's net, and neither net holds both.
C3_NetPerKernel ==
  [][ C3_Case =>
        LET B == opkernel'[call'.k]
            F == opkernel'[call'.fk]
            fwd == opkernel[call.k].op_prim
        IN  /\ fwd.id = call.id /\ fwd.kind = "forward_training"
            /\ Cardinality(NewEntries') = 2
            /\ B.op_prim.id = call'.id /\ B.op_prim.kind = "backward"
            /\ B.op_prim.hint = fwd.id
            /\ B.net_size >= 1
            /\ B.net[B.net_size - 1] = B.op_prim
            /\ IF call'.k = call'.fk
                 THEN B.net_size >= 2 /\ B.net[B.net_size - 2] = fwd
                 ELSE /\ F = opkernel[call'.fk]
                      /\ F.net[F.net_size - 1] = fwd
                      /\ \A i \in 0 .. B.net_size - 1 : B.net[i] # fwd
                      /\ \A i \in 0 .. F.net_size - 1 : F.net[i] # B.op_prim
    ]_vars

\* a forward build into one record, then a backward build against it into
\* another record: each net holds one entry
C3_Witness ==
  /\ BpropDone /\ call.fk # call.k
  /\ K.op_desc.hint = call.id - 1
  /\ opkernel[call.fk].op_prim =
       [id |-> call.id - 1, kind |-> "forward_training", hint |-> 0]
  /\ K.net_size = 1 /\ K.net[0] = K.op_prim
  /\ opkernel[call.fk].net_size = 1
  /\ opkernel[call.fk].net[0] = opkernel[call.fk].op_prim

\* C4 as stated: a backward build given the forward build's shape arguments
\* (src_sizes the pre-pooling extents, dst_sizes the post-pooling extents)
\* yields an output slot 0 with the pre-pooling extents.
C4_Original ==
  (BpropDone /\ call.a.src_sizes = Pre /\ call.a.dst_sizes = Post) =>
    /\ K.num_outputs = 1
    /\ K.outputs[0].sizes = Pre

\* C4 amended: the single output tensor of a backward build has the extents
\* passed as dst_sizes, in the tensor and in its resolved descriptor; it has
\* the pre-pooling extents exactly when the caller passes those as dst_sizes.
C4_BpropOutputExtents ==
  BpropDone =>
    /\ K.num_outputs = 1
    /\ K.outputs[0].prim = call.id
    /\ K.outputs[0].ndims = call.a.dst_dims
    /\ K.outputs[0].sizes = call.a.dst_sizes
    /\ K.outputs[0].md.dims = call.a.dst_sizes
    /\ (K.outputs[0].sizes = Pre) <=> (call.a.dst_sizes = Pre)

C4_Witness ==
  /\ BpropDone /\ call.a.pool_type = 0
  /\ call.a.src_sizes = Post /\ call.a.dst_sizes = Pre
  /\ K.num_inputs = 2 /\ K.num_outputs = 1 /\ K.outputs[0].sizes = Pre

\* every handle of an opkernel record within its counts was made by build `id`,
\* and the record's net ends with its primitive
FullyBuilt(kern, id) ==
  /\ id # 0
  /\ kern.op_desc.id = id
  /\ kern.op_prim.id = id /\ kern.op_prim.kind = kern.op_desc.kind
  /\ kern.num_inputs \in {1, 2} /\ kern.num_outputs \in {1, 2}
  /\ \A s \in Slots :
       /\ s < kern.num_inputs =>
            kern.inputs[s].prim = id /\ kern.reorder_i[s] = "NULL"
       /\ s < kern.num_outputs =>
            kern.outputs[s].prim = id /\ kern.reorder_o[s] = "NULL"
  /\ kern.net_size >= 1
  /\ kern.net[kern.net_size - 1] = kern.op_prim

\* C5: a build in which an engine call fails ends with the process terminated
\* and every net exactly as before the build; no call is ever made after that,
\* so every opkernel record a caller can see is untouched or fully built; a
\* build in which no engine call fails leaves its record fully populated with
\* exactly one new net entry and the other records as they were.
C5_AllOrNothing ==
  [][ /\ ~aborted
      /\ IF call'.ok
           THEN /\ ~aborted'
                /\ FullyBuilt(opkernel'[call'.k], call'.id)
                /\ opkernel'[call'.k].net_size = opkernel[call'.k].net_size + 1
                /\ \A j \in Kernels \ {call'.k} : opkernel'[j] = opkernel[j]
                /\ \A j \in Kernels :
                     \/ opkernel'[j] = EmptyKernel
                     \/ FullyBuilt(opkernel'[j], opkernel'[j].op_desc.id)
           ELSE /\ aborted'
                /\ \A j \in Kernels :
                     /\ opkernel'[j].net = opkernel[j].net
                     /\ opkernel'[j].net_size = opkernel[j].net_size
                     /\ opkernel'[j].op_prim = opkernel[j].op_prim
    ]_vars

\* a build failed in primitive_create on a record that an earlier build had
\* completed: descriptor and tensors are the new ones, primitive and net the old
C5_Witness ==
  /\ aborted /\ ~call.ok
  /\ K.op_desc.id = call.id /\ K.inputs[0].prim = call.id
  /\ K.op_prim.id = call.id - 1
  /\ K.net_size = 1 /\ K.net[0] = K.op_prim

\* C6 as stated: in every net the entries are in build order, and every
\* backward entry was built against a forward kernel whose entry had been
\* appended before.
C6_Original ==
  /\ \A k \in Kernels : \A i, j \in 0 .. opkernel[k].net_size - 1 :
       i < j => opkernel[k].net[i].id < opkernel[k].net[j].id
  /\ \A k \in Kernels : \A p \in NetEntries(k) :
       p.kind = "backward" =>
         \E m \in Kernels : \E q \in NetEntries(m) :
           q.kind = "forward_training" /\ q.id = p.hint /\ q.id < p.id

\* the guard of C7: the call that makes this step is a successful backward
\* build with no explicit source layout, against a record holding a completed
\* forward build that was given no explicit source layout either (the explicit
\* layouts of the model are never chwn)
C7_Case ==
  /\ call'.fn = "bprop" /\ call'.ok
  /\ call'.a.input_src_md = NULL_MD
  /\ opkernel[call'.fk].op_desc.kind = "forward_training"
  /\ opkernel[call'.fk].op_prim.id = opkernel[call'.fk].op_desc.id
  /\ opkernel[call'.fk].inputs[0].md.format = "chwn"

\* C7 as stated: with no explicit source layout on either side, the layout
\* resolved for the backward kernel's outgoing gradient (diff_src) equals the
\* layout resolved for the forward kernel's source.
C7_Original ==
  [][ C7_Case =>
        /\ opkernel'[call'.k].op_desc.diff_src_pd.format
             = opkernel[call'.fk].op_desc.src_pd.format
        /\ opkernel'[call'.k].outputs[0].md.format
             = opkernel[call'.fk].inputs[0].md.format
    ]_vars

\* C7 amended: with no explicit source layout on either side, the layout of
\* the backward kernel's incoming gradient (its input slot 0, the diff_dst
\* side of its descriptor) equals the layout of the forward kernel's source,
\* both being the default chwn; the outgoing gradient (diff_src) has the layout
\* the engine resolved, which is the layout of output slot 0.
C7_IncomingLayout ==
  [][ C7_Case =>
        /\ opkernel'[call'.k].op_desc.diff_dst_pd.format
             = opkernel[call'.fk].op_desc.src_pd.format
        /\ opkernel'[call'.k].inputs[0].md.format
             = opkernel[call'.fk].inputs[0].md.format
        /\ opkernel'[call'.k].op_desc.diff_src_pd.format \in Formats
        /\ opkernel'[call'.k].outputs[0].md
             = opkernel'[call'.k].op_desc.diff_src_pd
    ]_vars

C7_Witness ==
  /\ BpropDone /\ call.a.input_src_md = NULL_MD /\ call.fk # call.k
  /\ opkernel[call.fk].op_desc.kind = "forward_training"
  /\ opkernel[call.fk].op_prim.id = K.op_desc.hint
  /\ opkernel[call.fk].op_desc.src_pd.format = "chwn"
  /\ K.inputs[0].md.format = "chwn"
  /\ K.op_desc.diff_src_pd.format = "nchw"

\* C8: after every successful build, output slot 0 has the rank and extents
\* passed as dst_dims / dst_sizes, in the tensor and in its descriptor, for
\* each layout the engine resolves and with or without an explicit source
\* layout.
C8_DestinationExtents ==
  call.ok =>
    /\ K.outputs[0].prim = call.id
    /\ K.outputs[0].ndims = call.a.dst_dims
    /\ K.outputs[0].sizes = call.a.dst_sizes
    /\ K.outputs[0].md.ndims = call.a.dst_dims
    /\ K.outputs[0].md.dims = call.a.dst_sizes
    /\ K.outputs[0].md.format \in Formats

C8_Witness ==
  /\ FpropDone /\ call.a.input_src_md # NULL_MD
  /\ K.inputs[0].md.format = "nchw" /\ K.outputs[0].md.format = "chwn"
  /\ K.outputs[0].sizes = Post /\ K.outputs[0].ndims = 4
  /\ \E j \in Kernels \ {call.k} :
       /\ opkernel[j].op_desc.kind = "forward_training"
       /\ opkernel[j].inputs[0].md.format = "chwn"
       /\ opkernel[j].outputs[0].md.format = "nchw"
       /\ opkernel[j].outputs[0].sizes = Post

\* C9: a successful build writes its new primitive at position net_size of
\* its record's net and raises net_size by one; every other position of that
\* net, and every other record's net, stays as it was; a failed build changes
\* no net.
C9_AppendOnly ==
  [][ \A k \in Kernels :
        IF call'.ok /\ k = call'.k
          THEN /\ opkernel'[k].net_size = opkernel[k].net_size + 1
               /\ opkernel'[k].net[opkernel[k].net_size] = opkernel'[k].op_prim
               /\ opkernel'[k].op_prim.id = call'.id
               /\ \A i \in 0 .. MaxBuilds - 1 :
                    i # opkernel[k].net_size =>
                      opkernel'[k].net[i] = opkernel[k].net[i]
          ELSE /\ opkernel'[k].net = opkernel[k].net
               /\ opkernel'[k].net_size = opkernel[k].net_size
    ]_vars

C9_Witness ==
  /\ call.ok /\ K.net_size = 2
  /\ K.net[0].id = 1 /\ K.net[0].kind = "forward_training"
  /\ K.net[1].id = 2 /\ K.net[1].kind = "backward"

\* C10: a successful build whose pool_type is not 0 has the average
\* algorithm, no workspace descriptor, 1 input and 1 output, and leaves slot 1
\* as it was; and every call whose pool_type is not 0, completed or terminated,
\* leaves its record as the call with pool_type 1 and otherwise equal arguments
\* leaves it under some outcome of the engine calls, terminating only when an
\* engine call of that outcome fails.
C10_NonZeroIsAverage ==
  [][ call'.a.pool_type # 0 =>
        LET k == call'.k
            avg == [call'.a EXCEPT !.pool_type = 1]
        IN  /\ call'.ok =>
                 /\ opkernel'[k].op_desc.alg = "pooling_avg"
                 /\ opkernel'[k].op_desc.workspace_pd = NULL_MD
                 /\ opkernel'[k].num_inputs = 1
                 /\ opkernel'[k].num_outputs = 1
                 /\ opkernel'[k].inputs[1] = opkernel[k].inputs[1]
                 /\ opkernel'[k].outputs[1] = opkernel[k].outputs[1]
                 /\ opkernel'[k].reorder_i[1] = opkernel[k].reorder_i[1]
                 /\ opkernel'[k].reorder_o[1] = opkernel[k].reorder_o[1]
            /\ \E e \in EngineOutcomes :
                 /\ aborted' = MKL_CHECK(e)
                 /\ opkernel'[k] =
                      IF call'.fn = "fprop"
                        THEN pool_fprop_kernel(opkernel[k], avg, e, call'.id)
                        ELSE pool_bprop_kernel(opkernel[k], avg, e, call'.id,
                                               opkernel[call'.fk].op_desc)
    ]_vars

\* builds with selector 2 completed as average kernels, forward and backward
C10_Witness ==
  /\ BpropDone /\ call.a.pool_type = 2
  /\ K.op_desc.alg = "pooling_avg" /\ K.num_inputs = 1 /\ K.num_outputs = 1
  /\ K.inputs[1] = NULL_TENSOR /\ K.outputs[1] = NULL_TENSOR
  /\ \E j \in Kernels \ {call.k} :
       /\ opkernel[j].op_desc.kind = "forward_training"
       /\ opkernel[j].op_desc.alg = "pooling_avg"
       /\ opkernel[j].num_inputs = 1 /\ opkernel[j].num_outputs = 1

====
